---- MODULE Spec2Model ----
(***************************************************************************)
(* A model of weeg-serializer: structuredSerialize / structuredDeserialize *)
(* (the cycle-capable variant) over a heap of JavaScript values.           *)
(*                                                                         *)
(* A JavaScript value is a record: a primitive carries its type and its    *)
(* payload, an object is a reference [t |-> "obj", id |-> i] to heap[i].   *)
(* Identity of an object is its heap index.  The JSON text exchanged       *)
(* between the two functions is modelled by the JSON tree it denotes.      *)
(***************************************************************************)
EXTENDS Integers, Sequences, FiniteSets, TLC

\* ------------------------------------------------------------------ bounds
MaxEdges == 2        \* child slots (properties, map entries, set elements)
MaxLength == 2       \* largest declared length of a host-built array
MaxCallDepth == 8    \* call-stack frames available to the recursive decoder
MaxNumber == 300     \* magnitude of the integers Number()/BigInt() read back

\* ------------------------------------------------------------ JS values
Undefined == [t |-> "prim", pt |-> "undefined"]
Null == [t |-> "prim", pt |-> "null"]
Bool(b) == [t |-> "prim", pt |-> "boolean", bool |-> b]
Num(n) == [t |-> "prim", pt |-> "number", num |-> n]
NaN == [t |-> "prim", pt |-> "number", nan |-> TRUE]
NegZero == [t |-> "prim", pt |-> "number", negzero |-> TRUE]
BigInt(n) == [t |-> "prim", pt |-> "bigint", big |-> n]
Str(s) == [t |-> "prim", pt |-> "string", str |-> s]
Symbol == [t |-> "symbol"]
Ref(i) == [t |-> "obj", id |-> i]
\* %Object.prototype% / %Array.prototype%: the prototype a fresh object has
DefaultProto == [t |-> "intrinsic"]

IsObj(v) == v.t = "obj"
IsPrim(v) == v.t = "prim"

\* Number.prototype.toString on the numbers of the model
NumberToString(v) ==
  IF "nan" \in DOMAIN v THEN "NaN"
  ELSE IF "negzero" \in DOMAIN v THEN "0"
  ELSE ToString(v.num)

IntOfString == [s \in {ToString(n) : n \in -MaxNumber..MaxNumber} |->
                  CHOOSE n \in -MaxNumber..MaxNumber : ToString(n) = s]

\* Number(string): the empty string is 0, a non-numeric string is NaN
StringToNumber(s) ==
  IF s = "" THEN Num(0)
  ELSE IF s \in DOMAIN IntOfString THEN Num(IntOfString[s])
  ELSE NaN

\* SameValueZero, the equality of Map keys and Set elements: NaN equals
\* NaN and -0 equals +0
Normalize(v) == IF v = NegZero THEN Num(0) ELSE v
SameValueZero(a, b) == Normalize(a) = Normalize(b)

\* Property keys are strings; an array index is a canonical numeric string
MaxIndex == 8
IndexOfKey == [k \in {ToString(i) : i \in 0..MaxIndex} |->
                 CHOOSE i \in 0..MaxIndex : ToString(i) = k]
IsIndexKey(k) == k \in DOMAIN IndexOfKey
ProtoKey == "__proto__"

\* ------------------------------------------------- ordinary object props
\* props is the own-property list in [[OwnPropertyKeys]] order: integer
\* keys ascending, then string keys in creation order.
HasOwn(props, k) == \E i \in 1..Len(props) : props[i].key = k
GetOwn(props, k) == props[CHOOSE i \in 1..Len(props) : props[i].key = k].value
OwnKeys(props) == {props[i].key : i \in 1..Len(props)}

DefineOwn(props, k, v) ==
  IF HasOwn(props, k)
  THEN [i \in 1..Len(props) |->
          IF props[i].key = k THEN [key |-> k, value |-> v] ELSE props[i]]
  ELSE IF IsIndexKey(k)
  THEN LET before == SelectSeq(props, LAMBDA p :
                       IsIndexKey(p.key) /\ IndexOfKey[p.key] < IndexOfKey[k])
           after == SelectSeq(props, LAMBDA p :
                       ~(IsIndexKey(p.key) /\ IndexOfKey[p.key] < IndexOfKey[k]))
       IN before \o <<[key |-> k, value |-> v]>> \o after
  ELSE Append(props, [key |-> k, value |-> v])

\* Map.prototype.set / Set.prototype.add: SameValueZero keys, -0 stored as +0
MapSet(entries, k, v) ==
  IF \E i \in 1..Len(entries) : entries[i].key = Normalize(k)
  THEN [i \in 1..Len(entries) |->
          IF entries[i].key = Normalize(k)
          THEN [key |-> Normalize(k), value |-> v] ELSE entries[i]]
  ELSE Append(entries, [key |-> Normalize(k), value |-> v])

SetAdd(elems, v) ==
  IF \E i \in 1..Len(elems) : elems[i] = Normalize(v)
  THEN elems
  ELSE Append(elems, Normalize(v))

\* ----------------------------------------------------------- view kinds
TypedArrayNames == {"Int8Array", "Uint8Array", "Uint8ClampedArray",
                    "Int16Array", "Uint16Array", "Int32Array", "Uint32Array",
                    "Float32Array", "Float64Array", "BigInt64Array",
                    "BigUint64Array"}
ViewNames == TypedArrayNames \cup {"DataView"}

\* BYTES_PER_ELEMENT (a DataView addresses single bytes)
ElementSize(name) ==
  CASE name \in {"Int16Array", "Uint16Array"} -> 2
    [] name \in {"Int32Array", "Uint32Array", "Float32Array"} -> 4
    [] name \in {"Float64Array", "BigInt64Array", "BigUint64Array"} -> 8
    [] OTHER -> 1

UnsupportedKinds == {"WeakMap", "WeakSet", "Promise", "WeakRef",
                     "FinalizationRegistry", "function"}

\* ------------------------------------------------------- heap objects
\* heap[i] is the object of identity i.  Its kind is what the instanceof /
\* Array.isArray / typeof tests of the serializer see.
ObjectObj(props) == [kind |-> "Object", props |-> props, proto |-> DefaultProto]
ArrayObj(n, props) ==
  [kind |-> "Array", length |-> n, props |-> props, proto |-> DefaultProto]
MapObj(entries) == [kind |-> "Map", entries |-> entries]
SetObj(elems) == [kind |-> "Set", elems |-> elems]
BufferObj(bytes) == [kind |-> "ArrayBuffer", bytes |-> bytes]
ViewObj(name, buffer, off, len) ==
  [kind |-> "View", name |-> name, buffer |-> buffer,
   byteOffset |-> off, byteLength |-> len]
BoxedObj(kind, data) == [kind |-> kind, data |-> data]
DateObj(iso) == [kind |-> "Date", iso |-> iso]
RegExpObj(source, flags) == [kind |-> "RegExp", source |-> source, flags |-> flags]
\* message is Str(m) for an own data property 'message', Undefined without
ErrorObj(name, message) == [kind |-> "Error", name |-> name, message |-> message]
\* Even a value that cannot be serialized is an object with own properties
UnsupportedObj(kind) == [kind |-> kind, props |-> <<>>]

\* Object.getOwnPropertyNames: an array's 'length' follows its indices
OwnPropertyNames(o) ==
  LET keys == [i \in 1..Len(o.props) |-> o.props[i].key]
  IN IF o.kind = "Array"
     THEN SelectSeq(keys, IsIndexKey) \o <<"length">>
            \o SelectSeq(keys, LAMBDA k : ~IsIndexKey(k))
     ELSE keys

\* Reflect.get of an own data property
ReflectGet(o, k) ==
  IF o.kind = "Array" /\ k = "length" THEN Num(o.length) ELSE GetOwn(o.props, k)

\* ---------------------------------------------------------- serializer
\* memory is the Map<unknown, ComplexSerialization> in insertion order: a
\* sequence of [key |-> identity, rec |-> record].
MemoryHas(memory, id) == \E i \in 1..Len(memory) : memory[i].key = id
\* MemoryIndexOf counting positions from 1
MemoryIndexOfOneBased(memory, id) ==
  CHOOSE i \in 1..Len(memory) : memory[i].key = id

\* [... memory.keys()].indexOf(value)
MemoryIndexOf(memory, id) ==
  (CHOOSE i \in 1..Len(memory) : memory[i].key = id) - 1

Primitive(pt, value) == [type |-> "primitive", primitiveType |-> pt, value |-> value]
Reference(id) == [type |-> "Reference", referenceId |-> id]

SerializePrimitive(v) ==
  CASE v.pt = "undefined" -> Primitive("undefined", "undefined")
    [] v.pt = "null" -> Primitive("null", "null")
    [] v.pt = "boolean" -> Primitive("boolean", IF v.bool THEN "true" ELSE "false")
    [] v.pt = "number" -> Primitive("number", NumberToString(v))
    [] v.pt = "bigint" -> Primitive("bigint", ToString(v.big))
    [] v.pt = "string" -> Primitive("string", v.str)

StandardErrorNames == {"Error", "EvalError", "RangeError", "ReferenceError",
                       "SyntaxError", "TypeError", "URIError"}

\* [... data].join(','), written as the parts between its commas: the empty
\* string has one (empty) part
JoinBytes(bytes) ==
  IF bytes = <<>> THEN <<"">> ELSE [i \in 1..Len(bytes) |-> ToString(bytes[i])]

\* The record of a value that has no child to descend into
LeafRecord(o) ==
  CASE o.kind = "Boolean" ->
         [type |-> "Boolean", booleanData |-> IF o.data.bool THEN "true" ELSE "false"]
    [] o.kind = "Number" -> [type |-> "Number", numberData |-> NumberToString(o.data)]
    [] o.kind = "String" -> [type |-> "String", stringData |-> o.data.str]
    [] o.kind = "Date" -> [type |-> "Date", dateData |-> o.iso]
    [] o.kind = "RegExp" ->
         [type |-> "RegExp", originalSource |-> o.source, originalFlags |-> o.flags]
    [] o.kind = "ArrayBuffer" ->
         [type |-> "ArrayBuffer", arrayBufferByteLength |-> Len(o.bytes),
          arrayBufferData |-> JoinBytes(o.bytes)]
    [] o.kind = "Error" ->
         [type |-> "Error",
          name |-> IF o.name \in StandardErrorNames THEN o.name ELSE "Error",
          message |-> o.message]

LeafKinds == {"Boolean", "Number", "String", "Date", "RegExp", "ArrayBuffer", "Error"}

\* The empty record of a container, filled after memory.set
ShellRecord(o) ==
  CASE o.kind = "Map" -> [type |-> "Map", mapData |-> <<>>]
    [] o.kind = "Set" -> [type |-> "Set", setData |-> <<>>]
    [] o.kind = "Array" -> [type |-> "Array", length |-> o.length, properties |-> <<>>]
    [] OTHER -> [type |-> "Object", properties |-> <<>>]

\* IsUnsupported without the typeof test of line 195
IsUnsupportedNoFunction(o) == o.kind \in UnsupportedKinds \ {"function"}

\* The tests of lines 187-196: a WeakMap, WeakSet, Promise, WeakRef,
\* FinalizationRegistry or function is refused
IsUnsupported(o) == o.kind \in UnsupportedKinds

DeepKinds == {"Map", "Set", "Array", "Object"}

SerOk(memory, node) == [thrown |-> "", memory |-> memory, node |-> node]
SerThrow(name, memory) == [thrown |-> name, memory |-> memory, node |-> Reference(-1)]

\* memory.set(value, serialized) for a value not yet in memory
MemorySet(memory, id, rec) == Append(memory, [key |-> id, rec |-> rec])

\* serialized.mapData.push / setData.push / properties.push on the record
\* that memory holds at position pos
PushChild(memory, pos, item) ==
  LET rec == memory[pos].rec
      grown == CASE rec.type = "Map" -> [rec EXCEPT !.mapData = Append(@, item)]
                 [] rec.type = "Set" -> [rec EXCEPT !.setData = Append(@, item)]
                 [] OTHER -> [rec EXCEPT !.properties = Append(@, item)]
  IN [memory EXCEPT ![pos] = [key |-> memory[pos].key, rec |-> grown]]

RECURSIVE structuredSerializeInternal(_, _, _)
RECURSIVE SerializeChildren(_, _, _, _, _)

\* The loops of lines 203-223 from child i on; pos is where memory holds the
\* record being filled.
SerializeChildren(h, id, i, memory, pos) ==
  LET o == h[id] IN
  CASE o.kind = "Map" ->
         IF i > Len(o.entries) THEN SerOk(memory, Reference(pos - 1))
         ELSE LET k == structuredSerializeInternal(h, o.entries[i].key, memory)
              IN IF k.thrown # "" THEN k
                 ELSE LET v == structuredSerializeInternal(h, o.entries[i].value, k.memory)
                      IN IF v.thrown # "" THEN v
                         ELSE SerializeChildren(h, id, i + 1,
                                PushChild(v.memory, pos, [key |-> k.node, value |-> v.node]),
                                pos)
    [] o.kind = "Set" ->
         IF i > Len(o.elems) THEN SerOk(memory, Reference(pos - 1))
         ELSE LET v == structuredSerializeInternal(h, o.elems[i], memory)
              IN IF v.thrown # "" THEN v
                 ELSE SerializeChildren(h, id, i + 1, PushChild(v.memory, pos, v.node), pos)
    [] OTHER ->
         LET names == OwnPropertyNames(o) IN
         IF i > Len(names) THEN SerOk(memory, Reference(pos - 1))
         ELSE LET v == structuredSerializeInternal(h, ReflectGet(o, names[i]), memory)
              IN IF v.thrown # "" THEN v
                 ELSE SerializeChildren(h, id, i + 1,
                        PushChild(v.memory, pos, [key |-> names[i], value |-> v.node]),
                        pos)

structuredSerializeInternal(h, value, memory) ==
  IF IsObj(value) /\ MemoryHas(memory, value.id)
  THEN SerOk(memory, Reference(MemoryIndexOf(memory, value.id)))
  ELSE IF IsPrim(value) THEN SerOk(memory, SerializePrimitive(value))
  ELSE IF value.t = "symbol" THEN SerThrow("TypeError", memory)
  ELSE
    LET o == h[value.id] IN
    CASE o.kind \in LeafKinds ->
           LET m == MemorySet(memory, value.id, LeafRecord(o))
           IN SerOk(m, Reference(MemoryIndexOf(m, value.id)))
      [] o.kind = "View" ->
           LET b == structuredSerializeInternal(h, Ref(o.buffer), memory)
           IN IF b.thrown # "" THEN b
              ELSE LET m == MemorySet(b.memory, value.id,
                              [type |-> "ArrayBufferView",
                               typedArrayName |-> o.name,
                               typedArrayByteOffset |-> o.byteOffset,
                               typedArrayByteLength |-> o.byteLength,
                               arrayBufferSerialized |-> b.node])
                   IN SerOk(m, Reference(MemoryIndexOf(m, value.id)))
      [] o.kind \notin LeafKinds \cup {"View"} /\ IsUnsupported(o) ->
           SerThrow("TypeError", memory)
      [] OTHER ->  \* a Map, a Set, an array, or (the final else) a record
           LET m == MemorySet(memory, value.id, ShellRecord(o))
           IN SerializeChildren(h, value.id, 1, m, Len(m))

\* JSON.stringify of a record: a field holding undefined is left out
StringifyRecord(rec) ==
  IF rec.type = "Error"
  THEN IF rec.message = Undefined
       THEN [type |-> "Error", name |-> rec.name]
       ELSE [type |-> "Error", name |-> rec.name, message |-> rec.message.str]
  ELSE rec

NoText == [type |-> "none"]

\* structuredSerialize without the test of line 234
structuredSerializeAlwaysEnvelope(h, value) ==
  LET r == structuredSerializeInternal(h, value, <<>>) IN
  IF r.thrown # "" THEN [thrown |-> r.thrown, text |-> NoText]
  ELSE [thrown |-> "",
        text |-> [type |-> "TopLevel",
                  objects |-> [i \in 1..Len(r.memory) |-> StringifyRecord(r.memory[i].rec)],
                  topLevelValue |-> r.node]]

\* structuredSerialize: [thrown, text]; no text when it throws
structuredSerialize(h, value) ==
  LET r == structuredSerializeInternal(h, value, <<>>) IN
  IF r.thrown # "" THEN [thrown |-> r.thrown, text |-> NoText]
  ELSE IF r.node.type = "primitive" THEN [thrown |-> "", text |-> r.node]
  ELSE [thrown |-> "",
        text |-> [type |-> "TopLevel",
                  objects |-> [i \in 1..Len(r.memory) |-> StringifyRecord(r.memory[i].rec)],
                  topLevelValue |-> r.node]]

\* -------------------------------------------------------- deserializer
\* memory is the Map<number, unknown>: a function from the ids decoded so
\* far to the decoded value.  dh is the heap of the instances the decoder
\* has constructed; a new instance takes the next identity.
DesOk(memory, dh, value) ==
  [thrown |-> "", memory |-> memory, heap |-> dh, value |-> value]
DesThrow(name, memory, dh) ==
  [thrown |-> name, memory |-> memory, heap |-> dh, value |-> Undefined]

\* memory.set(id, value)
DesMemorySet(memory, id, value) ==
  [i \in DOMAIN memory \cup {id} |-> IF i = id THEN value ELSE memory[i]]

\* The switch on primitiveType, lines 252-271 (no default: undefined)
DeserializePrimitive(serialized) ==
  CASE serialized.primitiveType = "undefined" -> Undefined
    [] serialized.primitiveType = "null" -> Null
    [] serialized.primitiveType = "boolean" -> Bool(serialized.value = "true")
    [] serialized.primitiveType = "number" -> StringToNumber(serialized.value)
    [] serialized.primitiveType = "bigint" -> BigInt(IntOfString[serialized.value])
    [] serialized.primitiveType = "string" -> Str(serialized.value)
    [] OTHER -> Undefined

\* data[i] = Number(part): a Uint8Array element store (modulo 2^8, NaN is 0;
\* a store past the end is ignored)
ToUint8(v) == IF "num" \in DOMAIN v THEN v.num % 256 ELSE 0
SplitBytes(size, parts) ==
  [i \in 1..size |-> IF i <= Len(parts) THEN ToUint8(StringToNumber(parts[i])) ELSE 0]

\* The instance built from a record that has no child, lines 275-292, 352-376
LeafInstance(cs) ==
  CASE cs.type = "Boolean" -> BoxedObj("Boolean", Bool(cs.booleanData = "true"))
    [] cs.type = "Number" -> BoxedObj("Number", StringToNumber(cs.numberData))
    [] cs.type = "String" -> BoxedObj("String", Str(cs.stringData))
    [] cs.type = "Date" -> DateObj(cs.dateData)
    [] cs.type = "RegExp" -> RegExpObj(cs.originalSource, cs.originalFlags)
    [] cs.type = "ArrayBuffer" ->
         BufferObj(SplitBytes(cs.arrayBufferByteLength, cs.arrayBufferData))
    [] cs.type = "Error" ->
         ErrorObj(cs.name,
                  IF "message" \in DOMAIN cs THEN Str(cs.message) ELSE Undefined)

LeafTypes == {"Boolean", "Number", "String", "Date", "RegExp", "ArrayBuffer", "Error"}

\* new Map() / new Set() / new Array(length) / {}
ShellInstance(cs) ==
  CASE cs.type = "Map" -> MapObj(<<>>)
    [] cs.type = "Set" -> SetObj(<<>>)
    [] cs.type = "Array" -> ArrayObj(cs.length, <<>>)
    [] cs.type = "Object" -> ObjectObj(<<>>)

DeepTypes == {"Map", "Set", "Array", "Object"}

\* The switch on typedArrayName, lines 298-336: "ctor" when a constructor is
\* chosen and control leaves the switch, "throw" when it reaches the default
TypedArrayConstructorOf(name) ==
  CASE name \in TypedArrayNames -> "ctor"
    [] name = "DataView" -> "throw"   \* line 333 has no break: falls into default
    [] OTHER -> "throw"

BigNames == {"BigInt64Array", "BigUint64Array"}

\* The number of elements a typed-array constructor reads from an argument
\* that is no ArrayBuffer (a typed array, an array, an iterable)
SourceLength(dh, v) ==
  IF ~IsObj(v) THEN 0
  ELSE LET o == dh[v.id] IN
       CASE o.kind = "View" -> o.byteLength \div ElementSize(o.name)
         [] o.kind = "Array" -> o.length
         [] o.kind = "Map" -> Len(o.entries)
         [] o.kind = "Set" -> Len(o.elems)
         [] OTHER -> 0

\* ConstructTypedArray giving every view a copy of the buffer it is built on
ConstructTypedArrayOwnBuffer(name, dh, arg, byteOffset, length) ==
  LET bytes == IF IsObj(arg) /\ dh[arg.id].kind = "ArrayBuffer"
               THEN dh[arg.id].bytes ELSE <<>>
      bh == Append(dh, BufferObj(bytes))
      nh == Append(bh, ViewObj(name, Len(bh), 0, Len(bytes)))
  IN [thrown |-> "", heap |-> nh, value |-> Ref(Len(nh))]

\* new typedArrayConstructor(arrayBuffer, typedArrayByteOffset,
\* typedArrayByteLength), line 338: the third argument of a typed-array
\* constructor is a length in ELEMENTS.  [thrown, heap, value]
ConstructTypedArray(name, dh, arg, byteOffset, length) ==
  LET size == ElementSize(name) IN
  IF IsObj(arg) /\ dh[arg.id].kind = "ArrayBuffer"
  THEN IF byteOffset % size # 0
            \/ byteOffset + length * size > Len(dh[arg.id].bytes)
       THEN [thrown |-> "RangeError", heap |-> dh, value |-> Undefined]
       ELSE LET nh == Append(dh, ViewObj(name, arg.id, byteOffset, length * size))
            IN [thrown |-> "", heap |-> nh, value |-> Ref(Len(nh))]
  ELSE \* not a buffer: the elements are copied into a buffer of the view's own
       LET n == SourceLength(dh, arg) IN
       IF n > 0 /\ ((name \in BigNames) # (IsObj(arg) /\ dh[arg.id].kind = "View"
                                            /\ dh[arg.id].name \in BigNames))
       THEN [thrown |-> "TypeError", heap |-> dh, value |-> Undefined]
       ELSE LET bh == Append(dh, BufferObj([i \in 1..(n * size) |-> 0]))
                nh == Append(bh, ViewObj(name, Len(bh), 0, n * size))
            IN [thrown |-> "", heap |-> nh, value |-> Ref(Len(nh))]

\* Whether following prototypes from value v reaches the object target
RECURSIVE ProtoChainReaches(_, _, _)
ProtoChainReaches(dh, v, target) ==
  IF ~IsObj(v) THEN FALSE
  ELSE IF v.id = target THEN TRUE
  ELSE IF "proto" \in DOMAIN dh[v.id] THEN ProtoChainReaches(dh, dh[v.id].proto, target)
  ELSE FALSE

\* Reflect.set(value, key, deserializedValue) on a decoded array or record,
\* line 396.  [[Set]] of a key the object does not own consults the
\* prototype chain: '__proto__' is an accessor of %Object.prototype%, whose
\* setter replaces the prototype (of an object or null) and creates no own
\* property; a prototype cycle makes it throw.  An array's 'length' and
\* indices follow the array exotic rules.  [thrown, heap]
ReflectSet(dh, target, key, v) ==
  LET o == dh[target] IN
  IF key = ProtoKey /\ ~HasOwn(o.props, key)
  THEN IF IsObj(v) \/ v = Null
       THEN IF ProtoChainReaches(dh, v, target)
            THEN [thrown |-> "TypeError", heap |-> dh]
            ELSE [thrown |-> "", heap |-> [dh EXCEPT ![target].proto = v]]
       ELSE [thrown |-> "", heap |-> dh]
  ELSE IF o.kind = "Array" /\ key = "length"
  THEN IF "num" \in DOMAIN v /\ v.num >= 0
       THEN [thrown |-> "",
             heap |-> [dh EXCEPT ![target].length = v.num,
                                 ![target].props = SelectSeq(@, LAMBDA p :
                                    ~(IsIndexKey(p.key) /\ IndexOfKey[p.key] >= v.num))]]
       ELSE [thrown |-> "RangeError", heap |-> dh]
  ELSE IF o.kind = "Array" /\ IsIndexKey(key)
  THEN [thrown |-> "",
        heap |-> [dh EXCEPT ![target].props = DefineOwn(@, key, v),
                            ![target].length =
                               IF IndexOfKey[key] >= @ THEN IndexOfKey[key] + 1 ELSE @]]
  ELSE [thrown |-> "", heap |-> [dh EXCEPT ![target].props = DefineOwn(@, key, v)]]

NoRecord == [type |-> "undefined"]

\* ObjectsAt with an index that wraps around the array
ObjectsAtWrapped(objects, id) ==
  IF objects = <<>> THEN NoRecord ELSE objects[(id % Len(objects)) + 1]

\* objects[id], line 274: undefined when the array has no such element
ObjectsAt(objects, id) ==
  IF id + 1 \in 1..Len(objects) THEN objects[id + 1] ELSE NoRecord

RECURSIVE structuredDeserializeInternal(_, _, _, _, _)
RECURSIVE DeserializeChildren(_, _, _, _, _, _, _)

\* The loops of lines 382-398 over the children of record cs from child i
\* on, filling instance target
DeserializeChildren(cs, target, i, objects, memory, dh, depth) ==
  CASE cs.type = "Map" ->
         IF i > Len(cs.mapData) THEN DesOk(memory, dh, Ref(target))
         ELSE LET k == structuredDeserializeInternal(cs.mapData[i].key, objects,
                                                      memory, dh, depth + 1)
              IN IF k.thrown # "" THEN k
                 ELSE LET v == structuredDeserializeInternal(cs.mapData[i].value,
                                 objects, k.memory, k.heap, depth + 1)
                      IN IF v.thrown # "" THEN v
                         ELSE DeserializeChildren(cs, target, i + 1, objects, v.memory,
                                [v.heap EXCEPT ![target].entries =
                                   MapSet(@, k.value, v.value)], depth)
    [] cs.type = "Set" ->
         IF i > Len(cs.setData) THEN DesOk(memory, dh, Ref(target))
         ELSE LET v == structuredDeserializeInternal(cs.setData[i], objects,
                                                      memory, dh, depth + 1)
              IN IF v.thrown # "" THEN v
                 ELSE DeserializeChildren(cs, target, i + 1, objects, v.memory,
                        [v.heap EXCEPT ![target].elems = SetAdd(@, v.value)], depth)
    [] OTHER ->
         IF i > Len(cs.properties) THEN DesOk(memory, dh, Ref(target))
         ELSE LET v == structuredDeserializeInternal(cs.properties[i].value, objects,
                                                      memory, dh, depth + 1)
              IN IF v.thrown # "" THEN v
                 ELSE LET s == ReflectSet(v.heap, target, cs.properties[i].key, v.value)
                      IN IF s.thrown # "" THEN DesThrow(s.thrown, v.memory, v.heap)
                         ELSE DeserializeChildren(cs, target, i + 1, objects,
                                                  v.memory, s.heap, depth)

\* The RangeError 'Maximum call stack size exceeded'
StackExhausted == "RangeError: call stack"

\* depth counts the frames of structuredDeserializeInternal on the call
\* stack; a call the stack has no room for throws that RangeError
structuredDeserializeInternal(serialized, objects, memory, dh, depth) ==
  IF depth > MaxCallDepth THEN DesThrow(StackExhausted, memory, dh)
  ELSE IF serialized.type = "Reference" /\ serialized.referenceId \in DOMAIN memory
  THEN DesOk(memory, dh, memory[serialized.referenceId])
  ELSE IF serialized.type = "primitive"
  THEN DesOk(memory, dh, DeserializePrimitive(serialized))
  ELSE IF ObjectsAt(objects, serialized.referenceId) = NoRecord
  THEN DesThrow("TypeError", memory, dh)  \* reading .type of undefined throws
  ELSE
    LET id == serialized.referenceId
        cs == ObjectsAt(objects, id)
    IN
    CASE cs.type \in LeafTypes ->
           LET nh == Append(dh, LeafInstance(cs))
           IN DesOk(DesMemorySet(memory, id, Ref(Len(nh))), nh, Ref(Len(nh)))
      [] cs.type = "ArrayBufferView" ->
           IF TypedArrayConstructorOf(cs.typedArrayName) = "throw"
           THEN DesThrow("Error", memory, dh)
           ELSE LET b == structuredDeserializeInternal(cs.arrayBufferSerialized,
                           objects, memory, dh, depth + 1)
                IN IF b.thrown # "" THEN b
                   ELSE LET c == ConstructTypedArray(cs.typedArrayName, b.heap, b.value,
                                   cs.typedArrayByteOffset, cs.typedArrayByteLength)
                        IN IF c.thrown # "" THEN DesThrow(c.thrown, b.memory, b.heap)
                           ELSE DesOk(DesMemorySet(b.memory, id, c.value), c.heap, c.value)
      [] cs.type \in DeepTypes ->
           LET nh == Append(dh, ShellInstance(cs))
           IN DeserializeChildren(cs, Len(nh), 1, objects,
                                  DesMemorySet(memory, id, Ref(Len(nh))), nh, depth)
      [] OTHER ->
           \* no branch matches: value is still undefined at line 379
           DesOk(DesMemorySet(memory, id, Undefined), dh, Undefined)

EmptyMemory == [i \in {} |-> Undefined]

\* structuredDeserialize of the text denoting JSON tree text
structuredDeserialize(text) ==
  IF text.type = "primitive"
  THEN structuredDeserializeInternal(text, <<>>, EmptyMemory, <<>>, 1)
  ELSE structuredDeserializeInternal(text.topLevelValue, text.objects,
                                     EmptyMemory, <<>>, 1)

\* The child positions of an object and the value each holds
PositionsOf(o) ==
  CASE o.kind \in {"Object", "Array"} ->
         {[s |-> "prop", key |-> k] : k \in OwnKeys(o.props)}
    [] o.kind = "Map" ->
         {[s |-> "mapkey", i |-> i] : i \in 1..Len(o.entries)}
           \cup {[s |-> "mapvalue", i |-> i] : i \in 1..Len(o.entries)}
    [] o.kind = "Set" -> {[s |-> "elem", i |-> i] : i \in 1..Len(o.elems)}
    [] o.kind = "View" -> {[s |-> "buffer"]}
    [] OTHER -> {}

At(o, p) ==
  CASE p.s = "prop" -> GetOwn(o.props, p.key)
    [] p.s = "mapkey" -> o.entries[p.i].key
    [] p.s = "mapvalue" -> o.entries[p.i].value
    [] p.s = "elem" -> o.elems[p.i]
    [] p.s = "buffer" -> Ref(o.buffer)

\* ------------------------------------------------------------ the host
\* The host builds one value graph (object 1 is its root), passes it to
\* structuredSerialize, carries the text across a boundary that may alter
\* it, and passes the text to structuredDeserialize.
VARIABLES heap, phase, root, ser, text, des

vars == <<heap, phase, root, ser, text, des>>

NoCall == [thrown |-> "not called"]

\* The primitives the host stores inside a graph, and those it passes alone
GraphPrimitives == {Undefined, Num(1)}
RootPrimitives == {Undefined, Null, Bool(TRUE), Bool(FALSE), Num(-7), Num(0),
                   Num(255), NegZero, NaN, BigInt(-9), BigInt(12), Str(""),
                   Str("a"), Str("undefined")}

RecordKeys == {"a", "b", ProtoKey}
ListKeys == {ToString(i) : i \in 0..(MaxLength - 1)} \cup {"a", ProtoKey}
MapKey == Str("k")

ContainerShells == {ObjectObj(<<>>), ArrayObj(0, <<>>), ArrayObj(MaxLength, <<>>),
                    MapObj(<<>>), SetObj(<<>>)}
UnsupportedObjects == {UnsupportedObj(k) : k \in UnsupportedKinds}

\* Child slots of the graph built so far
EdgesOf(o) ==
  CASE o.kind \in {"Object", "Array"} -> Len(o.props)
    [] o.kind = "Map" -> Len(o.entries)
    [] o.kind = "Set" -> Len(o.elems)
    [] OTHER -> 0
RECURSIVE EdgeCount(_, _)
EdgeCount(h, i) == IF i = 0 THEN 0 ELSE EdgesOf(h[i]) + EdgeCount(h, i - 1)

\* The free child slots of object o
Slots(o) ==
  CASE o.kind = "Object" -> {[s |-> "prop", key |-> k] : k \in RecordKeys \ OwnKeys(o.props)}
    [] o.kind = "Array" -> {[s |-> "prop", key |-> k] : k \in ListKeys \ OwnKeys(o.props)}
    [] o.kind = "Map" ->
         {[s |-> "mapkey"]} \cup
         IF \E i \in 1..Len(o.entries) : o.entries[i].key = MapKey
         THEN {} ELSE {[s |-> "mapvalue"]}
    [] o.kind = "Set" -> {[s |-> "elem"]}
    [] OTHER -> {}

\* Object.defineProperty(o, key, {value: v, ...}) / map.set / set.add by
\* the host
Put(h, parent, slot, v) ==
  LET o == h[parent] IN
  CASE slot.s = "prop" /\ o.kind = "Array" /\ IsIndexKey(slot.key) ->
         [h EXCEPT ![parent].props = DefineOwn(@, slot.key, v),
                   ![parent].length =
                      IF IndexOfKey[slot.key] >= @ THEN IndexOfKey[slot.key] + 1 ELSE @]
    [] slot.s = "prop" /\ ~(o.kind = "Array" /\ IsIndexKey(slot.key)) ->
         [h EXCEPT ![parent].props = DefineOwn(@, slot.key, v)]
    [] slot.s = "mapvalue" -> [h EXCEPT ![parent].entries = MapSet(@, MapKey, v)]
    [] slot.s = "mapkey" -> [h EXCEPT ![parent].entries = MapSet(@, v, Undefined)]
    [] slot.s = "elem" -> [h EXCEPT ![parent].elems = SetAdd(@, v)]

Init ==
  /\ heap = <<>>
  /\ phase = "build"
  /\ root = Undefined
  /\ ser = NoCall
  /\ text = NoText
  /\ des = NoCall

\* The host allocates the root object of the graph
NewRoot(o) ==
  /\ phase = "build" /\ heap = <<>>
  /\ heap' = <<o>>
  /\ UNCHANGED <<phase, root, ser, text, des>>

\* A graph of MaxEdges child slots holds at most MaxEdges + 1 objects, and
\* one more when a view brings its own buffer
MaxObjects == MaxEdges + 2

\* The graphs built hold at most one value of an unsupported category: it
\* is the last value the host stores
HoldsUnsupported(h) ==
  \E x \in 1..Len(h) :
    \/ h[x].kind \in UnsupportedKinds
    \/ \E p \in PositionsOf(h[x]) : At(h[x], p) = Symbol

CanAttach(parent) ==
  /\ phase = "build"
  /\ parent \in 1..Len(heap)
  /\ EdgeCount(heap, Len(heap)) < MaxEdges
  /\ ~HoldsUnsupported(heap)

\* The host allocates an object and stores it in a slot of parent
AttachNew(parent, slot, o) ==
  /\ CanAttach(parent) /\ Len(heap) < MaxObjects
  /\ slot \in Slots(heap[parent])
  /\ heap' = Put(Append(heap, o), parent, slot, Ref(Len(heap) + 1))
  /\ UNCHANGED <<phase, root, ser, text, des>>

\* The host stores an object it already holds (sharing, or a cycle), a
\* primitive or a symbol in a slot of parent
AttachValue(parent, slot, v) ==
  /\ CanAttach(parent)
  /\ slot \in Slots(heap[parent])
  /\ heap' = Put(heap, parent, slot, v)
  /\ heap' # heap
  /\ UNCHANGED <<phase, root, ser, text, des>>

\* text = structuredSerialize(value)
Serialize(value) ==
  /\ phase = "build"
  /\ root' = value
  /\ ser' = structuredSerialize(heap, value)
  /\ text' = ser'.text
  /\ phase' = "serialized"
  /\ UNCHANGED <<heap, des>>

\* ---- the boundary: what reaches structuredDeserialize need not be what
\* structuredSerialize wrote
IsEnvelope(t) == t.type = "TopLevel"

\* A record arrives with a discriminator no variant has
AlterType(i) ==
  /\ phase = "serialized" /\ IsEnvelope(text)
  /\ i \in 1..Len(text.objects)
  /\ text' = [text EXCEPT !.objects[i].type = "Bogus"]
  /\ phase' = "altered"
  /\ UNCHANGED <<heap, root, ser, des>>

\* The root reference arrives with another id
AlterRoot(id) ==
  /\ phase = "serialized" /\ IsEnvelope(text)
  /\ id # text.topLevelValue.referenceId
  /\ text' = [text EXCEPT !.topLevelValue = Reference(id)]
  /\ phase' = "altered"
  /\ UNCHANGED <<heap, root, ser, des>>

\* The j-th child of record i, a reference, arrives with another id
ChildNodes(rec) ==
  CASE rec.type = "Map" ->
         [j \in 1..(2 * Len(rec.mapData)) |->
            IF j % 2 = 1 THEN rec.mapData[(j + 1) \div 2].key
            ELSE rec.mapData[j \div 2].value]
    [] rec.type = "Set" -> rec.setData
    [] rec.type \in {"Array", "Object"} ->
         [j \in 1..Len(rec.properties) |-> rec.properties[j].value]
    [] rec.type = "ArrayBufferView" -> <<rec.arrayBufferSerialized>>
    [] OTHER -> <<>>

WithChild(rec, j, node) ==
  CASE rec.type = "Map" ->
         IF j % 2 = 1 THEN [rec EXCEPT !.mapData[(j + 1) \div 2].key = node]
         ELSE [rec EXCEPT !.mapData[j \div 2].value = node]
    [] rec.type = "Set" -> [rec EXCEPT !.setData[j] = node]
    [] rec.type \in {"Array", "Object"} -> [rec EXCEPT !.properties[j].value = node]
    [] rec.type = "ArrayBufferView" -> [rec EXCEPT !.arrayBufferSerialized = node]

AlterChild(i, j, id) ==
  /\ phase = "serialized" /\ IsEnvelope(text)
  /\ i \in 1..Len(text.objects)
  /\ j \in 1..Len(ChildNodes(text.objects[i]))
  /\ ChildNodes(text.objects[i])[j].type = "Reference"
  /\ id # ChildNodes(text.objects[i])[j].referenceId
  /\ text' = [text EXCEPT !.objects[i] = WithChild(@, j, Reference(id))]
  /\ phase' = "altered"
  /\ UNCHANGED <<heap, root, ser, des>>

\* value = structuredDeserialize(text)
Deserialize ==
  /\ phase \in {"serialized", "altered"}
  /\ text # NoText
  /\ des' = structuredDeserialize(text)
  /\ phase' = "done"
  /\ UNCHANGED <<heap, root, ser, text>>

\* Ids just outside the record array
OutOfRange(t) == {-1, Len(t.objects)}

Next ==
  \/ \E o \in ContainerShells \cup UnsupportedObjects : NewRoot(o)
  \/ \E p \in 1..Len(heap), o \in ContainerShells \cup UnsupportedObjects :
       \E slot \in Slots(heap[p]) : AttachNew(p, slot, o)
  \/ \E p \in 1..Len(heap) :
       \E slot \in Slots(heap[p]) :
         \E v \in GraphPrimitives \cup {Symbol} \cup {Ref(i) : i \in 1..Len(heap)} :
           AttachValue(p, slot, v)
  \/ \E v \in RootPrimitives \cup {Symbol} : heap = <<>> /\ Serialize(v)
  \/ heap # <<>> /\ Serialize(Ref(1))
  \/ \E i \in 1..MaxObjects : AlterType(i)
  \/ IsEnvelope(text) /\ \E id \in OutOfRange(text) : AlterRoot(id)
  \/ IsEnvelope(text) /\ \E i \in 1..MaxObjects, j \in 1..(2 * MaxEdges) :
                             \E id \in OutOfRange(text) : AlterChild(i, j, id)
  \/ Deserialize

Spec == Init /\ [][Next]_vars

\* ------------------------------------------- the host, buffers and views
\* new ArrayBuffer(size), then filled by the host
BufferSizes == {0, 8}
Ramp(size) == [i \in 1..size |-> (i * 37) % 256]
BufferObjects == {BufferObj(Ramp(size)) : size \in BufferSizes}

\* The <<byteOffset, byteLength>> of the views new Ctor(buffer, byteOffset,
\* length) accepts over a buffer of size bytes (those on 4-byte steps)
ViewPlacements(name, size) ==
  {<<off, len>> \in (0..size) \X (0..size) :
     /\ off % 4 = 0 /\ len % 4 = 0
     /\ off % ElementSize(name) = 0 /\ len % ElementSize(name) = 0
     /\ off + len <= size}

LeafObjects == {BoxedObj("Boolean", Bool(TRUE)), BoxedObj("Number", Num(-7)),
                BoxedObj("String", Str("a")), DateObj("1970-01-01T00:00:00.000Z"),
                RegExpObj("a+", "gi"), ErrorObj("TypeError", Str("m")),
                ErrorObj("CustomError", Undefined)}

\* The host passes a view of a buffer of its own
NewRootView(name, size, place) ==
  /\ phase = "build" /\ heap = <<>>
  /\ heap' = <<ViewObj(name, 2, place[1], place[2]), BufferObj(Ramp(size))>>
  /\ UNCHANGED <<phase, root, ser, text, des>>

\* The host stores a new view of buffer b, which it already holds, in a
\* slot of parent
AttachView(parent, slot, name, b, place) ==
  /\ CanAttach(parent) /\ Len(heap) < MaxObjects
  /\ slot \in Slots(heap[parent])
  /\ b \in 1..Len(heap) /\ heap[b].kind = "ArrayBuffer"
  /\ place \in ViewPlacements(name, Len(heap[b].bytes))
  /\ heap' = Put(Append(heap, ViewObj(name, b, place[1], place[2])),
                 parent, slot, Ref(Len(heap) + 1))
  /\ UNCHANGED <<phase, root, ser, text, des>>

\* The host stores a new view of a new buffer in a slot of parent
AttachViewWithBuffer(parent, slot, name, size, place) ==
  /\ CanAttach(parent) /\ Len(heap) + 1 < MaxObjects
  /\ slot \in Slots(heap[parent])
  /\ heap' = Put(heap \o <<ViewObj(name, Len(heap) + 2, place[1], place[2]),
                           BufferObj(Ramp(size))>>,
                 parent, slot, Ref(Len(heap) + 1))
  /\ UNCHANGED <<phase, root, ser, text, des>>

\* A view record arrives with a kind no view has
AlterViewName(i) ==
  /\ phase = "serialized" /\ IsEnvelope(text)
  /\ i \in 1..Len(text.objects)
  /\ text.objects[i].type = "ArrayBufferView"
  /\ text' = [text EXCEPT !.objects[i].typedArrayName = "Float16Array"]
  /\ phase' = "altered"
  /\ UNCHANGED <<heap, root, ser, des>>

\* A view record arrives with another id as its buffer reference
AlterViewBuffer(i, id) ==
  /\ i \in 1..Len(text.objects)
  /\ text.objects[i].type = "ArrayBufferView"
  /\ AlterChild(i, 1, id)

NextViews ==
  \/ \E o \in {SetObj(<<>>)} \cup BufferObjects \cup LeafObjects : NewRoot(o)
  \/ \E name \in ViewNames, size \in BufferSizes :
       \E place \in ViewPlacements(name, size) : NewRootView(name, size, place)
  \/ \E p \in 1..Len(heap), o \in BufferObjects :
       \E slot \in Slots(heap[p]) : AttachNew(p, slot, o)
  \/ \E p \in 1..Len(heap), b \in 1..Len(heap), name \in ViewNames :
       \E slot \in Slots(heap[p]) :
         /\ heap[b].kind = "ArrayBuffer"
         /\ \E place \in ViewPlacements(name, Len(heap[b].bytes)) :
              AttachView(p, slot, name, b, place)
  \/ \E p \in 1..Len(heap), name \in ViewNames, size \in BufferSizes :
       \E slot \in Slots(heap[p]) :
         \E place \in ViewPlacements(name, size) :
           AttachViewWithBuffer(p, slot, name, size, place)
  \/ \E p \in 1..Len(heap) :
       \E slot \in Slots(heap[p]) :
         \E v \in {Ref(i) : i \in 1..Len(heap)} : AttachValue(p, slot, v)
  \/ heap # <<>> /\ Serialize(Ref(1))
  \/ \E i \in 1..MaxObjects : AlterType(i)
  \/ \E i \in 1..MaxObjects : AlterViewName(i)
  \/ IsEnvelope(text) /\ phase = "serialized"
       /\ \E i \in 1..MaxObjects, id \in -1..Len(text.objects) : AlterViewBuffer(i, id)
  \/ Deserialize

SpecViews == Init /\ [][NextViews]_vars

\* ------------------------------------------ the graph and its decoding
ChildIds(o) == {At(o, p).id : p \in {q \in PositionsOf(o) : IsObj(At(o, q))}}

RECURSIVE ReachFrom(_, _, _)
ReachFrom(h, frontier, seen) ==
  IF frontier = {} THEN seen
  ELSE LET x == CHOOSE y \in frontier : TRUE
       IN ReachFrom(h, (frontier \cup ChildIds(h[x])) \ (seen \cup {x}), seen \cup {x})

\* The identities reachable from value v through child positions
Reachable(h, v) == IF IsObj(v) THEN ReachFrom(h, {v.id}, {}) ELSE {}

HasCycle(h, v) ==
  \E x \in Reachable(h, v) : x \in ReachFrom(h, ChildIds(h[x]), {})

\* A symbol, or a value of a refused category, somewhere in the graph
ContainsUnsupported(h, v) ==
  \/ v = Symbol
  \/ \E x \in Reachable(h, v) :
       \/ h[x].kind \in UnsupportedKinds
       \/ \E p \in PositionsOf(h[x]) : At(h[x], p) = Symbol

\* The decoder was given exactly the text the serializer returned
Honest == phase = "done" /\ text = ser.text

\* The id the serializer assigned to identity x, and the instance the
\* decoder built for that id
EncMemory == structuredSerializeInternal(heap, root, <<>>).memory
IdOf(x) == MemoryIndexOf(EncMemory, x)
Corr(x) == des.memory[IdOf(x)]
Decoded(x) == des.heap[Corr(x).id]

\* Decoded value dv stands for original value v
Matches(v, dv) == IF IsObj(v) THEN dv = Corr(v.id) ELSE SameValueZero(v, dv)

\* Decoded object d has the variant, keys, entries and leaves of object o
SameShape(o, d) ==
  /\ d.kind = o.kind
  /\ o.kind \in {"Object", "Array"} =>
       /\ OwnKeys(d.props) = OwnKeys(o.props)
       /\ \A k \in OwnKeys(o.props) : Matches(GetOwn(o.props, k), GetOwn(d.props, k))
  /\ o.kind = "Array" => d.length = o.length
  /\ o.kind = "Map" =>
       /\ Len(d.entries) = Len(o.entries)
       /\ \A i \in 1..Len(o.entries) :
            /\ Matches(o.entries[i].key, d.entries[i].key)
            /\ Matches(o.entries[i].value, d.entries[i].value)
  /\ o.kind = "Set" =>
       /\ Len(d.elems) = Len(o.elems)
       /\ \A i \in 1..Len(o.elems) : Matches(o.elems[i], d.elems[i])

Isomorphic ==
  /\ des.thrown = ""
  /\ Matches(root, des.value)
  /\ \A x \in Reachable(heap, root) :
       /\ IsObj(Corr(x))
       /\ SameShape(heap[x], Decoded(x))
  /\ \A x, y \in Reachable(heap, root) : x # y => Corr(x) # Corr(y)

ContainerKinds == {"Object", "Array", "Map", "Set"}
OnlyContainers == \A x \in Reachable(heap, root) : heap[x].kind \in ContainerKinds

\* No object of the graph owns a property named '__proto__'
OrdinaryKeys ==
  \A x \in 1..Len(heap) :
    heap[x].kind \in {"Object", "Array"} => ~HasOwn(heap[x].props, ProtoKey)

\* ------------------------------------------------------------- claims

\* C1: for every graph of primitives, records, lists, maps and sets,
\* structuredDeserialize(structuredSerialize(v)) is isomorphic to v: same
\* variant, same own property keys, same entries and elements in the same
\* order, equal primitive leaves.
C1_RoundTrip == (Honest /\ OnlyContainers) => Isomorphic

\* The round trip of the graphs in which no property is named '__proto__'
RoundTripOrdinaryKeys == (Honest /\ OnlyContainers /\ OrdinaryKeys) => Isomorphic

\* Every position of the original that holds an object is, in the decoded
\* graph, a position holding the instance decoded for that object
IdentityPreserved ==
  /\ des.thrown = ""
  /\ \A x \in Reachable(heap, root) :
       /\ IsObj(Corr(x))
       /\ \A p \in PositionsOf(heap[x]) :
            IsObj(At(heap[x], p)) =>
              /\ p \in PositionsOf(Decoded(x))
              /\ At(Decoded(x), p) = Corr(At(heap[x], p).id)

\* C2: a graph containing a cycle is serialized without error, and in the
\* decoded graph the same path returns to the reference-identical instance.
C2_Cycle ==
  /\ (phase # "build" /\ HasCycle(heap, root) /\ ~ContainsUnsupported(heap, root))
       => ser.thrown = ""
  /\ (Honest /\ HasCycle(heap, root)) => IdentityPreserved

\* The cycle property of the graphs in which no property is named '__proto__'
CycleOrdinaryKeys == (Honest /\ HasCycle(heap, root) /\ OrdinaryKeys) => IdentityPreserved

\* The positions of the graph that hold an object
ObjectPositions ==
  {<<x, p>> \in UNION {{x} \X PositionsOf(heap[x]) : x \in Reachable(heap, root)} :
     IsObj(At(heap[x], p))}

\* Two positions hold one decoded instance exactly when they held one
\* original identity
SharingPreserved ==
  /\ des.thrown = ""
  /\ \A a \in ObjectPositions :
       /\ IsObj(Corr(a[1]))
       /\ a[2] \in PositionsOf(Decoded(a[1]))
  /\ \A a, b \in ObjectPositions :
       (At(heap[a[1]], a[2]) = At(heap[b[1]], b[2]))
         <=> (At(Decoded(a[1]), a[2]) = At(Decoded(b[1]), b[2]))

\* C3: two child positions holding the same identity decode to one
\* reference-identical instance, positions holding distinct identities to
\* distinct instances.
C3_Sharing == Honest => SharingPreserved

\* The sharing property of the graphs in which no property is named '__proto__'
SharingOrdinaryKeys == (Honest /\ OrdinaryKeys) => SharingPreserved

\* C4: a value of an unsupported category anywhere in the graph makes
\* structuredSerialize throw a TypeError and return no text.
C4_UnsupportedRejected ==
  (phase # "build" /\ ContainsUnsupported(heap, root))
    => (ser.thrown = "TypeError" /\ ser.text = NoText /\ text = NoText)

\* A function two levels below the root was refused
C4_Witness ==
  /\ phase = "serialized" /\ ser.thrown = "TypeError"
  /\ Len(heap) = 3 /\ heap[3].kind = "function"
  /\ 3 \notin ChildIds(heap[1]) /\ 3 \in Reachable(heap, root)

RecognizedTypes == LeafTypes \cup DeepTypes \cup {"ArrayBufferView"}

\* C5: a record with an unrecognized variant discriminator, or a view
\* record with an unrecognized view kind, makes structuredDeserialize
\* fail: no decoding that returns has met such a record.
C5_UnknownVariantFails ==
  (phase = "done" /\ des.thrown = "" /\ IsEnvelope(text)) =>
    \A id \in DOMAIN des.memory :
      /\ text.objects[id + 1].type \in RecognizedTypes
      /\ text.objects[id + 1].type = "ArrayBufferView"
           => text.objects[id + 1].typedArrayName \in ViewNames

\* The references the decoder follows once it has met record rec
FollowedReferences(rec) ==
  IF rec.type \in DeepTypes \cup {"ArrayBufferView"}
  THEN {ChildNodes(rec)[j] : j \in {k \in 1..Len(ChildNodes(rec)) :
                                      ChildNodes(rec)[k].type = "Reference"}}
  ELSE {}

InRange(node) == node.referenceId \in 0..(Len(text.objects) - 1)

\* C6: structuredDeserialize throws whenever the root reference or a
\* reference reached during decoding has an id with no record: a decoding
\* that returns has followed only references in range.
C6_UnknownReferenceFails ==
  (phase = "done" /\ des.thrown = "" /\ IsEnvelope(text)) =>
    /\ InRange(text.topLevelValue)
    /\ \A id \in DOMAIN des.memory :
         \A node \in FollowedReferences(text.objects[id + 1]) : InRange(node)

\* A child reference out of range, under a root in range, made decoding throw
C6_Witness ==
  /\ phase = "done" /\ IsEnvelope(text) /\ des.thrown = "TypeError"
  /\ InRange(text.topLevelValue)
  /\ \E id \in DOMAIN des.memory :
       \E node \in FollowedReferences(text.objects[id + 1]) : ~InRange(node)

\* C8: a primitive root is written as the bare primitive node and read back
\* as that primitive; an object root is written as the envelope of type,
\* objects and topLevelValue, with one record per identity reachable from
\* the root and a Reference as root.
C8_EnvelopeShape ==
  /\ (phase # "build" /\ IsPrim(root)) =>
       /\ ser.thrown = ""
       /\ ser.text.type = "primitive"
       /\ DOMAIN ser.text = {"type", "primitiveType", "value"}
  /\ (Honest /\ IsPrim(root)) =>
       /\ des.thrown = ""
       /\ SameValueZero(des.value, root)
       /\ des.heap = <<>> /\ des.memory = EmptyMemory
  /\ (phase # "build" /\ IsObj(root) /\ ser.thrown = "") =>
       /\ DOMAIN ser.text = {"type", "objects", "topLevelValue"}
       /\ ser.text.type = "TopLevel"
       /\ Len(ser.text.objects) = Cardinality(Reachable(heap, root))
       /\ ser.text.topLevelValue.type = "Reference"

\* A record holding a record was written as an envelope of two records
C8_Witness ==
  /\ phase = "serialized" /\ IsObj(root) /\ ser.thrown = ""
  /\ Len(ser.text.objects) = 2
  /\ heap[1].kind = "Object" /\ heap[2].kind = "Object"
  /\ HasOwn(heap[1].props, "b") /\ GetOwn(heap[1].props, "b") = Ref(2)
  /\ HasOwn(heap[2].props, "a") /\ GetOwn(heap[2].props, "a") = Num(1)

\* An index below the declared length that the array does not own
HasHole(o) == \E i \in 0..(o.length - 1) : ~HasOwn(o.props, ToString(i))

\* Decoded array d has the length of array o, owns exactly the indices o
\* owns, with the decoded value, and no other index
SameIndices(o, d) ==
  /\ d.kind = "Array"
  /\ d.length = o.length
  /\ \A i \in 0..MaxIndex :
       /\ HasOwn(d.props, ToString(i)) <=> HasOwn(o.props, ToString(i))
       /\ HasOwn(o.props, ToString(i))
            => Matches(GetOwn(o.props, ToString(i)), GetOwn(d.props, ToString(i)))

\* C9: a list with holes decodes to a list of the same length that owns
\* exactly the indices the original owned, the others staying holes.
C9_SparseArray ==
  Honest =>
    \A x \in Reachable(heap, root) :
      (heap[x].kind = "Array" /\ HasHole(heap[x])) =>
        /\ des.thrown = ""
        /\ IsObj(Corr(x))
        /\ SameIndices(heap[x], Decoded(x))

\* The sparse-array property of the graphs in which no property is named
\* '__proto__'
SparseArrayOrdinaryKeys ==
  (Honest /\ OrdinaryKeys) =>
    \A x \in Reachable(heap, root) :
      (heap[x].kind = "Array" /\ HasHole(heap[x])) =>
        /\ des.thrown = ""
        /\ IsObj(Corr(x))
        /\ SameIndices(heap[x], Decoded(x))

\* C7: every view kind the serializer writes is accepted by the
\* deserializer, which returns a view of the same kind.
C7_ViewKindsAccepted ==
  (Honest /\ IsObj(root) /\ heap[root.id].kind = "View") =>
    /\ des.thrown = ""
    /\ IsObj(des.value)
    /\ des.heap[des.value.id].kind = "View"
    /\ des.heap[des.value.id].name = heap[root.id].name

\* C10: a decoded view has the byte offset and the byte length of the
\* original, for every view kind and element width, and its construction
\* does not fail.
C10_ViewCoversSameBytes ==
  Honest =>
    \A x \in Reachable(heap, root) :
      heap[x].kind = "View" =>
        /\ des.thrown = ""
        /\ IsObj(Corr(x))
        /\ Decoded(x).kind = "View"
        /\ Decoded(x).byteOffset = heap[x].byteOffset
        /\ Decoded(x).byteLength = heap[x].byteLength

\* Every Reference of the text, the root and the children of every record,
\* has an id in 0..objects.length-1
AllInRange ==
  /\ IsEnvelope(text)
  /\ text.topLevelValue.type = "Reference" => InRange(text.topLevelValue)
  /\ \A i \in 1..Len(text.objects) :
       \A j \in 1..Len(ChildNodes(text.objects[i])) :
         ChildNodes(text.objects[i])[j].type = "Reference"
           => InRange(ChildNodes(text.objects[i])[j])

\* The instances the decoder's memory holds
Registered == {des.memory[id] : id \in DOMAIN des.memory}

\* A view record of the text whose buffer reference leads back to a view
\* record before any buffer
ViewCycle ==
  \E i \in 1..Len(text.objects) :
    /\ text.objects[i].type = "ArrayBufferView"
    /\ text.objects[i].arrayBufferSerialized.type = "Reference"
    /\ text.objects[i].arrayBufferSerialized.referenceId = i - 1

\* C11: for every envelope whose reference ids are all in range, cycles
\* included, structuredDeserialize terminates (it does not recurse until
\* the call stack is exhausted) and constructs at most one instance per
\* record id: when it returns, every instance it built for a record is the
\* one its memory holds for that record.
C11_DecodeTerminates ==
  (phase = "done" /\ AllInRange) =>
    /\ des.thrown # StackExhausted
    /\ des.thrown = "" =>
         \A x \in 1..Len(des.heap) :
           des.heap[x].kind # "ArrayBuffer" => Ref(x) \in Registered

\* The termination of the decodings in which no view record refers to itself
DecodeTerminatesWithoutViewCycle ==
  (phase = "done" /\ AllInRange /\ ~ViewCycle) => des.thrown # StackExhausted

\* The children of object o in the order the serializer reaches them
ChildSeq(o) ==
  CASE o.kind = "Map" ->
         [j \in 1..(2 * Len(o.entries)) |->
            IF j % 2 = 1 THEN o.entries[(j + 1) \div 2].key
            ELSE o.entries[j \div 2].value]
    [] o.kind = "Set" -> o.elems
    [] o.kind \in {"Object", "Array"} ->
         [j \in 1..Len(OwnPropertyNames(o)) |-> ReflectGet(o, OwnPropertyNames(o)[j])]
    [] o.kind = "View" -> <<Ref(o.buffer)>>
    [] OTHER -> <<>>

\* The identities of the graph in pre-order of first visit: todo holds the
\* values still to visit, seen the identities visited so far
RECURSIVE PreOrder(_, _, _)
PreOrder(h, todo, seen) ==
  IF todo = <<>> THEN seen
  ELSE LET v == Head(todo) IN
       IF ~IsObj(v) \/ \E i \in 1..Len(seen) : seen[i] = v.id
       THEN PreOrder(h, Tail(todo), seen)
       ELSE PreOrder(h, ChildSeq(h[v.id]) \o Tail(todo), Append(seen, v.id))

\* The identities in the order of their ids
IdOrder == [i \in 1..Len(EncMemory) |-> EncMemory[i].key]

Serialized == phase # "build" /\ IsObj(root) /\ ser.thrown = ""

\* C12: every value receives its id at its first visit, before any of its
\* children is encoded: the ids are numbered in pre-order of first visit,
\* and the id of a value is smaller than the id of a child first reached
\* through it (the root has id 0).
C12_IdsInPreOrder ==
  Serialized =>
    /\ IdOrder = PreOrder(heap, <<root>>, <<>>)
    /\ ser.text.topLevelValue.referenceId = 0

\* The numbering of the graphs that hold no view
IdsInPreOrderWithoutViews ==
  (Serialized /\ \A x \in Reachable(heap, root) : heap[x].kind # "View") =>
    /\ IdOrder = PreOrder(heap, <<root>>, <<>>)
    /\ ser.text.topLevelValue.referenceId = 0

\* The buffers and the views of the graph passed to structuredSerialize
BuffersOf == {x \in Reachable(heap, root) : heap[x].kind = "ArrayBuffer"}
ViewsOf == {x \in Reachable(heap, root) : heap[x].kind = "View"}

\* The view records the decoder has built a view for, whose buffer
\* reference names a buffer record
DecodedViewRecords ==
  {id \in DOMAIN des.memory :
     /\ text.objects[id + 1].type = "ArrayBufferView"
     /\ IsObj(des.memory[id])
     /\ des.heap[des.memory[id].id].kind = "View"
     /\ LET b == text.objects[id + 1].arrayBufferSerialized IN
          /\ b.type = "Reference" /\ InRange(b)
          /\ text.objects[b.referenceId + 1].type = "ArrayBuffer"}

BufferIdOf(id) == text.objects[id + 1].arrayBufferSerialized.referenceId

OutputReferences ==
  {ser.text.topLevelValue} \cup
  UNION {{ChildNodes(ser.text.objects[i])[j] :
            j \in {k \in 1..Len(ChildNodes(ser.text.objects[i])) :
                     ChildNodes(ser.text.objects[i])[k].type = "Reference"}} :
         i \in 1..Len(ser.text.objects)}

\* The record type written for an object of kind k
TypeOfKind(k) == IF k = "View" THEN "ArrayBufferView" ELSE k

\* The node written for child value v
NodeFor(v) == IF IsObj(v) THEN Reference(IdOf(v.id)) ELSE SerializePrimitive(v)

\* C14: after a successful structuredSerialize of an object root every
\* Reference of the output has an id in 0..n-1; the ids are dense and
\* injective (one record per identity, one identity per record, and only
\* identities, never primitives, have one); and the record at position id
\* is the record of the value the Reference stands for: its type is that of
\* the value and its children are the nodes of the value's children.
C14_ReferenceTable ==
  Serialized =>
    /\ \A node \in OutputReferences :
         node.referenceId \in 0..(Len(ser.text.objects) - 1)
    /\ Len(ser.text.objects) = Cardinality(Reachable(heap, root))
    /\ {EncMemory[i].key : i \in 1..Len(EncMemory)} = Reachable(heap, root)
    /\ \A i, j \in 1..Len(EncMemory) : EncMemory[i].key = EncMemory[j].key => i = j
    /\ ser.text.topLevelValue = Reference(IdOf(root.id))
    /\ \A x \in Reachable(heap, root) :
         LET rec == ser.text.objects[IdOf(x) + 1]
             cs == ChildSeq(heap[x])
             ns == ChildNodes(rec)
         IN /\ rec.type = TypeOfKind(heap[x].kind)
            /\ Len(ns) = Len(cs)
            /\ \A j \in 1..Len(cs) : ns[j] = NodeFor(cs[j])

\* A graph of two objects with a primitive child and a reference back to
\* the root was written as two records
C14_Witness ==
  /\ Serialized /\ Len(ser.text.objects) = 2
  /\ \E j \in 1..Len(ChildNodes(ser.text.objects[2])) :
       ChildNodes(ser.text.objects[2])[j] = Reference(0)
  /\ \E i \in 1..2 : \E j \in 1..Len(ChildNodes(ser.text.objects[i])) :
       ChildNodes(ser.text.objects[i])[j].type = "primitive"

\* ------------------------------------- the legacy serializer (index.ts)
\* The variant without references: a record holds the records of its
\* children, and memory (a sequence of [key |-> identity, rec |-> record])
\* only serves to refuse an identity met before.
LegacyMemoryHas(memory, id) == \E i \in 1..Len(memory) : memory[i].key = id

\* LegacyMemorySet that keeps only the values that have children to visit
LegacyMemorySetDeepOnly(memory, id, rec) ==
  IF rec.type \in DeepTypes THEN Append(memory, [key |-> id, rec |-> rec]) ELSE memory

\* memory.set(value, serialized), index.ts line 187
LegacyMemorySet(memory, id, rec) == Append(memory, [key |-> id, rec |-> rec])

\* mapData.push / setData.push / properties.push on the record being built
LegacyPush(rec, item) ==
  CASE rec.type = "Map" -> [rec EXCEPT !.mapData = Append(@, item)]
    [] rec.type = "Set" -> [rec EXCEPT !.setData = Append(@, item)]
    [] OTHER -> [rec EXCEPT !.properties = Append(@, item)]

RECURSIVE legacyStructuredSerializeInternal(_, _, _)
RECURSIVE LegacySerializeChildren(_, _, _, _, _)

\* The loops of index.ts lines 188-210 from child i on; rec is the record
\* being filled
LegacySerializeChildren(h, id, i, memory, rec) ==
  LET o == h[id] IN
  CASE o.kind = "Map" ->
         IF i > Len(o.entries) THEN SerOk(memory, rec)
         ELSE LET k == legacyStructuredSerializeInternal(h, o.entries[i].key, memory)
              IN IF k.thrown # "" THEN k
                 ELSE LET v == legacyStructuredSerializeInternal(h, o.entries[i].value,
                                                                k.memory)
                      IN IF v.thrown # "" THEN v
                         ELSE LegacySerializeChildren(h, id, i + 1, v.memory,
                                LegacyPush(rec, [key |-> k.node, value |-> v.node]))
    [] o.kind = "Set" ->
         IF i > Len(o.elems) THEN SerOk(memory, rec)
         ELSE LET v == legacyStructuredSerializeInternal(h, o.elems[i], memory)
              IN IF v.thrown # "" THEN v
                 ELSE LegacySerializeChildren(h, id, i + 1, v.memory,
                                              LegacyPush(rec, v.node))
    [] OTHER ->
         LET names == OwnPropertyNames(o) IN
         IF i > Len(names) THEN SerOk(memory, rec)
         ELSE LET v == legacyStructuredSerializeInternal(h, ReflectGet(o, names[i]), memory)
              IN IF v.thrown # "" THEN v
                 ELSE LegacySerializeChildren(h, id, i + 1, v.memory,
                        LegacyPush(rec, [key |-> names[i], value |-> v.node]))

\* structuredSerializeInternal of index.ts, lines 102-212
legacyStructuredSerializeInternal(h, value, memory) ==
  IF IsObj(value) /\ LegacyMemoryHas(memory, value.id)
  THEN SerThrow("TypeError", memory)   \* 'Cannot serialize a circular reference'
  ELSE IF IsPrim(value) THEN SerOk(memory, SerializePrimitive(value))
  ELSE IF value.t = "symbol" THEN SerThrow("TypeError", memory)
  ELSE
    LET o == h[value.id] IN
    CASE o.kind \in LeafKinds ->
           SerOk(LegacyMemorySet(memory, value.id, LeafRecord(o)), LeafRecord(o))
      [] o.kind = "View" ->
           LET b == legacyStructuredSerializeInternal(h, Ref(o.buffer), memory)
           IN IF b.thrown # "" THEN b
              ELSE IF b.node.type # "ArrayBuffer" THEN SerThrow("TypeError", b.memory)
              ELSE LET rec == [type |-> "ArrayBufferView",
                               typedArrayName |-> o.name,
                               typedArrayByteOffset |-> o.byteOffset,
                               typedArrayByteLength |-> o.byteLength,
                               arrayBufferSerialized |-> b.node]
                   IN SerOk(LegacyMemorySet(b.memory, value.id, rec), rec)
      [] o.kind \notin LeafKinds \cup {"View"} /\ IsUnsupported(o) ->
           SerThrow("TypeError", memory)
      [] OTHER ->
           LegacySerializeChildren(h, value.id, 1,
             LegacyMemorySet(memory, value.id, ShellRecord(o)), ShellRecord(o))

\* JSON.stringify of the nested record: a field holding undefined is left out
RECURSIVE LegacyStringify(_)
LegacyStringify(n) ==
  CASE n.type = "Map" ->
         [n EXCEPT !.mapData = [i \in 1..Len(n.mapData) |->
            [key |-> LegacyStringify(n.mapData[i].key),
             value |-> LegacyStringify(n.mapData[i].value)]]]
    [] n.type = "Set" ->
         [n EXCEPT !.setData = [i \in 1..Len(n.setData) |-> LegacyStringify(n.setData[i])]]
    [] n.type \in {"Array", "Object"} ->
         [n EXCEPT !.properties = [i \in 1..Len(n.properties) |->
            [key |-> n.properties[i].key,
             value |-> LegacyStringify(n.properties[i].value)]]]
    [] n.type = "ArrayBufferView" ->
         [n EXCEPT !.arrayBufferSerialized = LegacyStringify(n.arrayBufferSerialized)]
    [] OTHER -> StringifyRecord(n)

\* structuredSerialize of index.ts, lines 214-217: [thrown, text]
legacyStructuredSerialize(h, value) ==
  LET r == legacyStructuredSerializeInternal(h, value, <<>>) IN
  IF r.thrown # "" THEN [thrown |-> r.thrown, text |-> NoText]
  ELSE [thrown |-> "", text |-> LegacyStringify(r.node)]

\* text = structuredSerialize(value), by the legacy variant
LegacySerialize(value) ==
  /\ phase = "build"
  /\ root' = value
  /\ ser' = legacyStructuredSerialize(heap, value)
  /\ text' = ser'.text
  /\ phase' = "serialized"
  /\ UNCHANGED <<heap, des>>

NextLegacy ==
  \/ \E o \in ContainerShells \cup UnsupportedObjects \cup BufferObjects \cup LeafObjects :
       NewRoot(o)
  \/ \E name \in ViewNames, size \in BufferSizes :
       \E place \in ViewPlacements(name, size) : NewRootView(name, size, place)
  \/ \E p \in 1..Len(heap),
        o \in ContainerShells \cup UnsupportedObjects \cup BufferObjects \cup LeafObjects :
       \E slot \in Slots(heap[p]) : AttachNew(p, slot, o)
  \/ \E p \in 1..Len(heap), b \in 1..Len(heap), name \in {"Uint8Array", "DataView"} :
       \E slot \in Slots(heap[p]) :
         /\ heap[b].kind = "ArrayBuffer"
         /\ \E place \in ViewPlacements(name, Len(heap[b].bytes)) :
              AttachView(p, slot, name, b, place)
  \/ \E p \in 1..Len(heap), name \in {"Uint8Array", "DataView"}, size \in BufferSizes :
       \E slot \in Slots(heap[p]) :
         \E place \in ViewPlacements(name, size) :
           AttachViewWithBuffer(p, slot, name, size, place)
  \/ \E p \in 1..Len(heap) :
       \E slot \in Slots(heap[p]) :
         \E v \in GraphPrimitives \cup {Symbol} \cup {Ref(i) : i \in 1..Len(heap)} :
           AttachValue(p, slot, v)
  \/ \E v \in RootPrimitives \cup {Symbol} : heap = <<>> /\ LegacySerialize(v)
  \/ heap # <<>> /\ LegacySerialize(Ref(1))

SpecLegacy == Init /\ [][NextLegacy]_vars

\* Some identity of the graph is reached twice from the root: it is held by
\* two child positions, or it is the root and held by a child position
ReachedTwice ==
  \E y \in Reachable(heap, root) :
    Cardinality({a \in ObjectPositions : At(heap[a[1]], a[2]) = Ref(y)})
      + (IF root = Ref(y) THEN 1 ELSE 0) >= 2

\* C15: the legacy structuredSerialize throws a TypeError and returns no
\* text whenever an identity is reached a second time in one call, through
\* a cycle or through plain sharing (two properties holding one object, two
\* views over one buffer), and succeeds on every tree of supported values.
C15_LegacyRefusesSharing ==
  phase # "build" =>
    /\ ReachedTwice => (ser.thrown = "TypeError" /\ ser.text = NoText /\ text = NoText)
    /\ (~ReachedTwice /\ ~ContainsUnsupported(heap, root)) =>
         (ser.thrown = "" /\ text # NoText)

\* Two views over one buffer, in a graph without cycle, were refused
C15_Witness ==
  /\ phase = "serialized" /\ ser.thrown = "TypeError"
  /\ ~HasCycle(heap, root) /\ ~ContainsUnsupported(heap, root)
  /\ \E v, w \in ViewsOf : v # w /\ heap[v].buffer = heap[w].buffer

====
